---- MODULE Spec2Model ----
(***************************************************************************)
(* A model of package jsonapi (data_structs.go): the Document record tree, *)
(* the two shape-sniffing containers (DataContainer and                    *)
(* RelationshipDataContainer), the sparse-fieldset query parser            *)
(* (FilterFields.ParseQuery) and the field projection (CustomObject).      *)
(*                                                                         *)
(* Representation of Go values:                                            *)
(*   - a pointer, slice or map that is nil is <<>>, a non-nil one is <<v>>;*)
(*   - a slice value is [e |-> visible elements, spare |-> the elements of *)
(*     its backing array between len and cap];                             *)
(*   - a map[string]T is [keys |-> set of keys, at |-> a function on the   *)
(*     key universe], at[k] being the zero value outside keys;             *)
(*   - an error is a string, "" being the nil error.                       *)
(* Representation of JSON text: a JSON value is a record tagged with its   *)
(* kind; an object is a record of optional members (<<>> when the member   *)
(* is absent from the text), in the order the encoder writes them.         *)
(***************************************************************************)
EXTENDS Integers, Sequences, FiniteSets, TLC

VARIABLES
    api,      \* the part of the package a run exercises
    c,        \* a DataContainer that decode/encode calls are applied to
    rc,       \* a RelationshipDataContainer, driven with corresponding payloads
    cres,     \* what the last call on c returned: [op, err, out, payload]
    rcres,    \* what the last call on rc returned
    doc,      \* a Document built by the caller
    dres,     \* the last Document-level call: [op, err, wire, out]
    q,        \* url.Values handed to ParseQuery
    f0,       \* the FilterFields before ParseQuery
    run,      \* two runs of ParseQuery on (q, f0): the keys left and the map
    co,       \* a CustomObject: Fields and the host Object
    pres      \* the last projection result: [op, keys, at]

vars == <<api, c, rc, cres, rcres, doc, dres, q, f0, run, co, pres>>
cvars == <<c, rc, cres, rcres>>
dvars == <<doc, dres>>
qvars == <<q, f0, run>>
pvars == <<co, pres>>

----------------------------------------------------------------------------
(* Go nil-able values *)

Nil == <<>>
Ptr(v) == <<v>>
IsNil(p) == Len(p) = 0

Max(a, b) == IF a >= b THEN a ELSE b

----------------------------------------------------------------------------
(* encoding/json on strings: a JSON scalar is [kind, s] *)

JStr(s) == [kind |-> "string", s |-> s]
JNum(s) == [kind |-> "number", s |-> s]
JNull == [kind |-> "null", s |-> "null"]

\* decoding a member m (absent, or a scalar) into a string field holding old:
\* null is a no-op, a non-string is an UnmarshalTypeError that is saved while
\* decoding goes on
DecString(old, m) ==
    IF IsNil(m) THEN [v |-> old, err |-> ""]
    ELSE IF m[1].kind = "string" THEN [v |-> m[1].s, err |-> ""]
    ELSE IF m[1].kind = "null" THEN [v |-> old, err |-> ""]
    ELSE [v |-> old, err |-> "json: cannot unmarshal into Go value of type string"]

\* a string field tagged omitempty
EncStringOmitEmpty(s) == IF s = "" THEN Nil ELSE Ptr(JStr(s))

FirstErr(errs) ==
    IF \E i \in 1..Len(errs) : errs[i] /= ""
    THEN errs[CHOOSE i \in 1..Len(errs) :
                 errs[i] /= "" /\ \A j \in 1..(i-1) : errs[j] = ""]
    ELSE ""

----------------------------------------------------------------------------
(* Links *)

LinksZero ==
    [Self |-> "", Related |-> "", First |-> "", Previous |-> "", Next |-> "", Last |-> ""]

EncodeLinks(l) ==
    [self |-> EncStringOmitEmpty(l.Self),
     related |-> EncStringOmitEmpty(l.Related),
     first |-> EncStringOmitEmpty(l.First),
     prev |-> EncStringOmitEmpty(l.Previous),
     next |-> EncStringOmitEmpty(l.Next),
     last |-> EncStringOmitEmpty(l.Last)]

DecodeLinks(old, w) ==
    LET s == DecString(old.Self, w.self)
        r == DecString(old.Related, w.related)
        fi == DecString(old.First, w.first)
        p == DecString(old.Previous, w.prev)
        n == DecString(old.Next, w.next)
        la == DecString(old.Last, w.last)
    IN [v |-> [Self |-> s.v, Related |-> r.v, First |-> fi.v,
               Previous |-> p.v, Next |-> n.v, Last |-> la.v],
        err |-> FirstErr(<<s.err, r.err, fi.err, p.err, n.err, la.err>>)]

\* a member of type *Links tagged omitempty; the JSON value is [kind, obj]
EncodeLinksPtr(p) ==
    IF IsNil(p) THEN Nil ELSE Ptr([kind |-> "object", obj |-> EncodeLinks(p[1])])

DecodeLinksPtr(old, m) ==
    IF IsNil(m) THEN [v |-> old, err |-> ""]
    ELSE IF m[1].kind = "null" THEN [v |-> Nil, err |-> ""]
    ELSE IF m[1].kind = "object"
    THEN LET r == DecodeLinks(IF IsNil(old) THEN LinksZero ELSE old[1], m[1].obj)
         IN [v |-> Ptr(r.v), err |-> r.err]
    ELSE [v |-> old, err |-> "json: cannot unmarshal into Go value of type Links"]

----------------------------------------------------------------------------
(* Meta: map[string]interface{} with omitempty.  An interface{} value is   *)
(* [t, s]: its dynamic type and its text.                                  *)

MetaNames == {"n"}

IfaceNil == [t |-> "nil", s |-> "null"]

EncodeIface(x) ==
    IF x.t = "string" THEN JStr(x.s)
    ELSE IF x.t = "nil" THEN JNull
    ELSE JNum(x.s)

\* a JSON number decodes into interface{} as a float64, whatever was encoded
DecodeIface(j) ==
    IF j.kind = "string" THEN [t |-> "string", s |-> j.s]
    ELSE IF j.kind = "null" THEN IfaceNil
    ELSE [t |-> "float64", s |-> j.s]

MetaEmpty == [keys |-> {}, at |-> [k \in MetaNames |-> IfaceNil]]

EncodeMeta(m) ==
    IF IsNil(m) \/ m[1].keys = {} THEN Nil
    ELSE Ptr([kind |-> "object",
              keys |-> m[1].keys,
              at |-> [k \in MetaNames |-> EncodeIface(m[1].at[k])]])

DecodeMeta(old, m) ==
    IF IsNil(m) THEN [v |-> old, err |-> ""]
    ELSE IF m[1].kind = "null" THEN [v |-> Nil, err |-> ""]
    ELSE IF m[1].kind = "object"
    THEN LET base == IF IsNil(old) THEN MetaEmpty ELSE old[1]
         IN [v |-> Ptr([keys |-> base.keys \cup m[1].keys,
                        at |-> [k \in MetaNames |->
                                   IF k \in m[1].keys THEN DecodeIface(m[1].at[k])
                                   ELSE base.at[k]]]),
             err |-> ""]
    ELSE [v |-> old, err |-> "json: cannot unmarshal into Go value of type map"]

----------------------------------------------------------------------------
(* encoding/json: json.Unmarshal of a payload into a pointer, a struct     *)
(* value and a slice.  A payload is [ws, ok, kind, obj, arr]: whether it   *)
(* starts with whitespace, whether it is syntactically valid JSON, the     *)
(* kind of its value, its members when an object, its elements when an     *)
(* array.  An element of an array is [kind, obj].  Dec(old, w) decodes the *)
(* members w into the struct value old and returns [v, err, fatal]; fatal  *)
(* says that a nested UnmarshalJSON returned the error, which ends the     *)
(* decoding at once.                                                       *)

\* the first byte of the payload ("" when the payload is empty)
FirstByte(p) ==
    IF p.ws THEN " "
    ELSE CASE p.kind = "object" -> "{"
           [] p.kind = "array" -> "["
           [] p.kind = "string" -> "\""
           [] p.kind = "number" -> "1"
           [] p.kind = "null" -> "n"
           [] OTHER -> ""

HasPrefix(p, prefix) == FirstByte(p) = prefix

objectSuffix == "{"
arraySuffix == "["

\* With(x, F) is F(x): a name for a value that is used more than once
With(x, F(_)) == F(x)

\* a JSON value j = [kind, obj] decoded into the struct value old; r is what
\* the decoder of the struct's type makes of old and j.obj
JsonDecodeStruct(r, old, j) ==
    IF j.kind = "object" THEN r
    ELSE IF j.kind = "null" THEN [v |-> old, err |-> "", fatal |-> FALSE]
    ELSE [v |-> old, err |-> "json: cannot unmarshal into Go struct", fatal |-> FALSE]

\* what a pointer decodes into: what it points to, a new zero value when nil
PtrTarget(zero, old) == IF IsNil(old) THEN zero ELSE old[1]

\* json.Unmarshal(payload, &ptr), ptr a pointer to a struct; r0 is what the
\* decoder of the struct's type makes of PtrTarget(zero, old) and p.obj
JsonUnmarshalPtr(r0, old, p) ==
    IF ~p.ok THEN [v |-> old, err |-> "json: syntax error", fatal |-> FALSE]
    ELSE IF p.kind = "object"
    THEN With(r0, LAMBDA r : [v |-> Ptr(r.v), err |-> r.err, fatal |-> r.fatal])
    ELSE IF p.kind = "null" THEN [v |-> Nil, err |-> "", fatal |-> FALSE]
    ELSE [v |-> old, err |-> "json: cannot unmarshal into Go struct", fatal |-> FALSE]

\* the index of the first element whose decoding was fatal, 0 when none was
FirstFatal(dec) ==
    IF \E i \in 1..Len(dec) : dec[i].fatal
    THEN CHOOSE i \in 1..Len(dec) : dec[i].fatal /\ \A j \in 1..(i-1) : ~dec[j].fatal
    ELSE 0

\* the backing array of a slice, and what element i of a JSON array decodes
\* into: what the backing array holds at i, a new zero value beyond it
Backing(old) == IF IsNil(old) THEN <<>> ELSE old[1].e \o old[1].spare
SliceTarget(zero, old, i) ==
    IF i <= Len(Backing(old)) THEN Backing(old)[i] ELSE zero

\* json.Unmarshal(payload, &slice): element i is decoded into what the
\* backing array holds at i (nothing is zeroed first), the slice grows when
\* the array has more elements and is cut to the array's length at the end;
\* an empty array gives a fresh empty slice; a fatal error leaves the slice
\* as long as it was, or as long as the elements decoded so far; elems is
\* what the decoder of the element type makes of each element of p.arr
JsonUnmarshalSlice(elems, old, p) ==
    IF ~p.ok THEN [v |-> old, err |-> "json: syntax error", fatal |-> FALSE]
    ELSE IF p.kind = "null" THEN [v |-> Nil, err |-> "", fatal |-> FALSE]
    ELSE IF p.kind /= "array"
    THEN [v |-> old, err |-> "json: cannot unmarshal into Go slice", fatal |-> FALSE]
    ELSE IF Len(p.arr) = 0
    THEN [v |-> Ptr([e |-> <<>>, spare |-> <<>>]), err |-> "", fatal |-> FALSE]
    ELSE
      With(Backing(old), LAMBDA back :
      With(elems, LAMBDA dec :
      With(FirstFatal(dec), LAMBDA stop :
      With(IF stop = 0 THEN Len(dec)
           ELSE Max(stop, IF IsNil(old) THEN 0 ELSE Len(old[1].e)), LAMBDA vis :
        [v |-> Ptr([e |-> [i \in 1..vis |->
                             IF i <= Len(dec) /\ (stop = 0 \/ i <= stop)
                             THEN dec[i].v ELSE back[i]],
                    spare |-> SubSeq(back, vis + 1, Len(back))]),
         err |-> IF stop /= 0 THEN dec[stop].err
                 ELSE FirstErr([i \in 1..Len(dec) |-> dec[i].err]),
         fatal |-> stop /= 0]))))

----------------------------------------------------------------------------
(* RelationshipData and RelationshipDataContainer *)

RelationshipDataZero == [Type |-> "", ID |-> ""]

EncodeRelationshipData(d) ==
    [type |-> Ptr(JStr(d.Type)), id |-> Ptr(JStr(d.ID))]

DecodeRelationshipData(old, w) ==
    With(DecString(old.Type, w.type), LAMBDA t :
    With(DecString(old.ID, w.id), LAMBDA i :
      [v |-> [Type |-> t.v, ID |-> i.v],
       err |-> FirstErr(<<t.err, i.err>>),
       fatal |-> FALSE]))

RelContainerZero == [DataObject |-> Nil, DataArray |-> Nil]

RelObjFiller == [type |-> Nil, id |-> Nil]

\* c.DataObject or c.DataArray assigned by json.Unmarshal, and its error
SetDataObject(cn, r) == [c |-> [cn EXCEPT !.DataObject = r.v], err |-> r.err]
SetDataArray(cn, r) == [c |-> [cn EXCEPT !.DataArray = r.v], err |-> r.err]

\* json.Unmarshal(payload, &c.DataObject)
UnmarshalRelationshipDataPtr(old, p) ==
    JsonUnmarshalPtr(DecodeRelationshipData(PtrTarget(RelationshipDataZero, old), p.obj),
                     old, p)

\* json.Unmarshal(payload, &c.DataArray)
UnmarshalRelationshipDataSlice(old, p) ==
    JsonUnmarshalSlice(
        [i \in 1..Len(p.arr) |->
           JsonDecodeStruct(
               DecodeRelationshipData(SliceTarget(RelationshipDataZero, old, i),
                                      p.arr[i].obj),
               SliceTarget(RelationshipDataZero, old, i), p.arr[i])],
        old, p)

\* func (c *RelationshipDataContainer) UnmarshalJSON(payload []byte) error
RelationshipDataContainer_UnmarshalJSON(cn, p) ==
    IF HasPrefix(p, objectSuffix)
    THEN SetDataObject(cn, UnmarshalRelationshipDataPtr(cn.DataObject, p))
    ELSE IF HasPrefix(p, arraySuffix)
    THEN SetDataArray(cn, UnmarshalRelationshipDataSlice(cn.DataArray, p))
    ELSE [c |-> cn, err |-> "Invalid json for relationship data array/object"]

\* json.Marshal of a *T to a struct: null for a nil pointer
RelMarshalObject(ptr) ==
    IF IsNil(ptr)
    THEN [kind |-> "null", obj |-> RelObjFiller, arr |-> <<>>]
    ELSE [kind |-> "object", obj |-> EncodeRelationshipData(ptr[1]), arr |-> <<>>]

\* json.Marshal of a non-nil []T
RelMarshalArray(sl) ==
    [kind |-> "array", obj |-> RelObjFiller,
     arr |-> [i \in 1..Len(sl[1].e) |->
                [kind |-> "object", obj |-> EncodeRelationshipData(sl[1].e[i])]]]

\* a variant that tests len(c.DataArray) > 0 instead of c.DataArray != nil
RelationshipDataContainer_MarshalJSON_LenTest(cn) ==
    IF ~IsNil(cn.DataArray) /\ Len(cn.DataArray[1].e) > 0
    THEN [out |-> RelMarshalArray(cn.DataArray), err |-> ""]
    ELSE [out |-> RelMarshalObject(cn.DataObject), err |-> ""]

\* func (c *RelationshipDataContainer) MarshalJSON() ([]byte, error)
RelationshipDataContainer_MarshalJSON(cn) ==
    IF ~IsNil(cn.DataArray)
    THEN [out |-> RelMarshalArray(cn.DataArray), err |-> ""]
    ELSE [out |-> RelMarshalObject(cn.DataObject), err |-> ""]

----------------------------------------------------------------------------
(* Relationship and the map[string]Relationship of a resource *)

RelNameSeq == <<"author">>
RelNames == {RelNameSeq[i] : i \in 1..Len(RelNameSeq)}

RelationshipZero == [Links |-> Nil, Data |-> Nil, Meta |-> Nil]

\* the bytes a Marshaler returned, as the value of a member
AsMember(out) ==
    Ptr([ws |-> FALSE, ok |-> TRUE, kind |-> out.kind, obj |-> out.obj, arr |-> out.arr])

\* Data *RelationshipDataContainer `json:"data,omitempty"`: a nil pointer is
\* left out, any other goes through MarshalJSON
EncodeRelationship(r) ==
    [links |-> EncodeLinksPtr(r.Links),
     data |-> IF IsNil(r.Data) THEN Nil
              ELSE AsMember(RelationshipDataContainer_MarshalJSON(r.Data[1]).out),
     meta |-> EncodeMeta(r.Meta)]

\* a member that is null sets the pointer to nil without calling
\* UnmarshalJSON; any other value allocates the container when the pointer
\* is nil and hands the value's bytes to UnmarshalJSON, whose error ends the
\* decoding
DecodeRelationship(old, w) ==
    With(DecodeLinksPtr(old.Links, w.links), LAMBDA l :
    With(IF IsNil(w.data) THEN [v |-> old.Data, err |-> ""]
         ELSE IF w.data[1].kind = "null" THEN [v |-> Nil, err |-> ""]
         ELSE With(RelationshipDataContainer_UnmarshalJSON(
                      IF IsNil(old.Data) THEN RelContainerZero ELSE old.Data[1],
                      w.data[1]),
                   LAMBDA r : [v |-> Ptr(r.c), err |-> r.err]),
         LAMBDA d :
    With(IF d.err /= "" THEN [v |-> old.Meta, err |-> ""]
         ELSE DecodeMeta(old.Meta, w.meta), LAMBDA m :
      [v |-> [Links |-> l.v, Data |-> d.v, Meta |-> m.v],
       err |-> IF d.err /= "" THEN d.err ELSE FirstErr(<<l.err, m.err>>),
       fatal |-> d.err /= ""])))

RelWireFiller == [links |-> Nil, data |-> Nil, meta |-> Nil]

RelPayloadFiller == [ws |-> FALSE, ok |-> TRUE, kind |-> "null",
                     obj |-> RelObjFiller, arr |-> <<>>]

RelMapEmpty == [keys |-> {}, at |-> [k \in RelNames |-> RelationshipZero]]

\* Relationships map[string]Relationship `json:"relationships,omitempty"`
EncodeRelationships(m) ==
    IF IsNil(m) \/ m[1].keys = {} THEN Nil
    ELSE Ptr([kind |-> "object",
              keys |-> m[1].keys,
              at |-> [k \in RelNames |->
                        IF k \in m[1].keys THEN EncodeRelationship(m[1].at[k])
                        ELSE RelWireFiller]])

\* one key of the JSON object: its value is decoded into a zero
\* Relationship and then stored; a fatal error stops before the store
DecodeRelKey(acc, r, k) ==
    IF r.fatal THEN [v |-> acc.v, err |-> r.err, fatal |-> TRUE]
    ELSE [v |-> [keys |-> acc.v.keys \cup {k}, at |-> [acc.v.at EXCEPT ![k] = r.v]],
          err |-> FirstErr(<<acc.err, r.err>>),
          fatal |-> FALSE]

\* the keys of the JSON object in turn
DecodeRelKeys(start, w) ==
    LET Step[i \in 0..Len(RelNameSeq)] ==
          IF i = 0 THEN start
          ELSE With(Step[i-1], LAMBDA acc :
                 IF acc.fatal \/ RelNameSeq[i] \notin w.keys THEN acc
                 ELSE DecodeRelKey(acc,
                                   DecodeRelationship(RelationshipZero,
                                                      w.at[RelNameSeq[i]]),
                                   RelNameSeq[i]))
    IN Step[Len(RelNameSeq)]

DecodeRelationships(old, m) ==
    IF IsNil(m) THEN [v |-> old, err |-> "", fatal |-> FALSE]
    ELSE IF m[1].kind = "null" THEN [v |-> Nil, err |-> "", fatal |-> FALSE]
    ELSE IF m[1].kind = "object"
    THEN With(DecodeRelKeys([v |-> IF IsNil(old) THEN RelMapEmpty ELSE old[1],
                             err |-> "", fatal |-> FALSE], m[1]),
              LAMBDA r : [v |-> Ptr(r.v), err |-> r.err, fatal |-> r.fatal])
    ELSE [v |-> old, err |-> "json: cannot unmarshal into Go value of type map",
          fatal |-> FALSE]

----------------------------------------------------------------------------
(* Data (a resource object) *)

DataZero ==
    [Type |-> "", ID |-> "", Attributes |-> Nil, Relationships |-> Nil, Links |-> Nil]

\* the JSON texts a json.RawMessage is given in the model, and json.Compact
RawTexts == {"null", "{}", "{ }", "{\"k\":1}", "1"}
ValidJSON(t) == t \in RawTexts
Compact(t) == IF t = "{ }" THEN "{}" ELSE t

\* Attributes json.RawMessage `json:"attributes"`: nil is written as null,
\* other bytes are checked and compacted by the encoder
EncodeRawMessage(a) ==
    IF IsNil(a) THEN [v |-> Ptr("null"), err |-> ""]
    ELSE IF ValidJSON(a[1]) THEN [v |-> Ptr(Compact(a[1])), err |-> ""]
    ELSE [v |-> Nil, err |-> "json: error calling MarshalJSON for type json.RawMessage"]

\* RawMessage.UnmarshalJSON copies the bytes of the value, null included
DecodeRawMessage(old, m) ==
    IF IsNil(m) THEN old ELSE Ptr(m[1])

EncodeData(d) ==
    With(EncodeRawMessage(d.Attributes), LAMBDA a :
      [v |-> [type |-> Ptr(JStr(d.Type)),
              id |-> Ptr(JStr(d.ID)),
              attributes |-> a.v,
              relationships |-> EncodeRelationships(d.Relationships),
              links |-> EncodeLinksPtr(d.Links)],
       err |-> a.err])

DecodeData(old, w) ==
    With(DecString(old.Type, w.type), LAMBDA t :
    With(DecString(old.ID, w.id), LAMBDA i :
    With(DecodeRelationships(old.Relationships, w.relationships), LAMBDA r :
    With(IF r.fatal THEN [v |-> old.Links, err |-> ""]
         ELSE DecodeLinksPtr(old.Links, w.links), LAMBDA l :
      [v |-> [Type |-> t.v, ID |-> i.v,
              Attributes |-> DecodeRawMessage(old.Attributes, w.attributes),
              Relationships |-> r.v, Links |-> l.v],
       err |-> IF r.fatal THEN r.err ELSE FirstErr(<<t.err, i.err, r.err, l.err>>),
       fatal |-> r.fatal]))))

DataObjFiller ==
    [type |-> Nil, id |-> Nil, attributes |-> Nil, relationships |-> Nil, links |-> Nil]

----------------------------------------------------------------------------
(* DataContainer *)

ContainerZero == [DataObject |-> Nil, DataArray |-> Nil]

\* json.Unmarshal(payload, &c.DataObject)
UnmarshalDataPtr(old, p) ==
    JsonUnmarshalPtr(DecodeData(PtrTarget(DataZero, old), p.obj), old, p)

\* json.Unmarshal(payload, &c.DataArray), and the decoding of Included
UnmarshalDataSlice(old, p) ==
    JsonUnmarshalSlice(
        [i \in 1..Len(p.arr) |->
           JsonDecodeStruct(DecodeData(SliceTarget(DataZero, old, i), p.arr[i].obj),
                            SliceTarget(DataZero, old, i), p.arr[i])],
        old, p)

\* a variant that takes a payload of another kind as nothing to decode
DataContainer_UnmarshalJSON_Lenient(cn, p) ==
    IF HasPrefix(p, objectSuffix)
    THEN SetDataObject(cn, UnmarshalDataPtr(cn.DataObject, p))
    ELSE IF HasPrefix(p, arraySuffix)
    THEN SetDataArray(cn, UnmarshalDataSlice(cn.DataArray, p))
    ELSE [c |-> cn, err |-> ""]

\* a variant with the two prefixes exchanged
DataContainer_UnmarshalJSON_Swapped(cn, p) ==
    IF HasPrefix(p, arraySuffix)
    THEN SetDataObject(cn, UnmarshalDataPtr(cn.DataObject, p))
    ELSE IF HasPrefix(p, objectSuffix)
    THEN SetDataArray(cn, UnmarshalDataSlice(cn.DataArray, p))
    ELSE [c |-> cn, err |-> "expected a JSON encoded object or array"]

\* func (c *DataContainer) UnmarshalJSON(payload []byte) error
DataContainer_UnmarshalJSON(cn, p) ==
    IF HasPrefix(p, objectSuffix)
    THEN SetDataObject(cn, UnmarshalDataPtr(cn.DataObject, p))
    ELSE IF HasPrefix(p, arraySuffix)
    THEN SetDataArray(cn, UnmarshalDataSlice(cn.DataArray, p))
    ELSE [c |-> cn, err |-> "expected a JSON encoded object or array"]

\* json.Marshal(c.DataObject)
MarshalObject(ptr) ==
    IF IsNil(ptr)
    THEN [out |-> [kind |-> "null", obj |-> DataObjFiller, arr |-> <<>>], err |-> ""]
    ELSE With(EncodeData(ptr[1]), LAMBDA r :
           [out |-> [kind |-> "object", obj |-> r.v, arr |-> <<>>], err |-> r.err])

\* json.Marshal(c.DataArray), c.DataArray not nil
MarshalArray(sl) ==
    With([i \in 1..Len(sl[1].e) |-> EncodeData(sl[1].e[i])], LAMBDA enc :
      [out |-> [kind |-> "array", obj |-> DataObjFiller,
                arr |-> [i \in 1..Len(enc) |-> [kind |-> "object", obj |-> enc[i].v]]],
       err |-> FirstErr([i \in 1..Len(enc) |-> enc[i].err])])

\* a variant that tests len(c.DataArray) > 0 instead of c.DataArray != nil
DataContainer_MarshalJSON_LenTest(cn) ==
    IF ~IsNil(cn.DataArray) /\ Len(cn.DataArray[1].e) > 0
    THEN MarshalArray(cn.DataArray)
    ELSE MarshalObject(cn.DataObject)

\* func (c *DataContainer) MarshalJSON() ([]byte, error)
DataContainer_MarshalJSON(cn) ==
    IF ~IsNil(cn.DataArray)
    THEN MarshalArray(cn.DataArray)
    ELSE MarshalObject(cn.DataObject)

----------------------------------------------------------------------------
(* Document *)

DocumentZero == [Links |-> Nil, Data |-> Nil, Included |-> Nil, Meta |-> Nil]

NullPayload == [ws |-> FALSE, ok |-> TRUE, kind |-> "null",
                obj |-> DataObjFiller, arr |-> <<>>]

\* Included []Data `json:"included,omitempty"`: left out when it has no
\* element
EncodeIncluded(inc) ==
    IF IsNil(inc) \/ Len(inc[1].e) = 0 THEN [v |-> Nil, err |-> ""]
    ELSE With(MarshalArray(inc), LAMBDA r : [v |-> AsMember(r.out), err |-> r.err])

\* json.Marshal(doc): Data *DataContainer `json:"data"` is null for a nil
\* pointer and MarshalJSON's output otherwise
EncodeDocument(d) ==
    With(IF IsNil(d.Data) THEN [out |-> NullPayload, err |-> ""]
         ELSE DataContainer_MarshalJSON(d.Data[1]), LAMBDA m :
    With(EncodeIncluded(d.Included), LAMBDA inc :
      [wire |-> [links |-> EncodeLinksPtr(d.Links),
                 data |-> AsMember(m.out),
                 included |-> inc.v,
                 meta |-> EncodeMeta(d.Meta)],
       err |-> FirstErr(<<m.err, inc.err>>)]))

\* the data member of a Document: null sets Data to nil without calling
\* UnmarshalJSON; any other value allocates the container when Data is nil
\* and calls UnmarshalJSON
DecodeDocumentData(old, m) ==
    IF IsNil(m) THEN [v |-> old, err |-> ""]
    ELSE IF m[1].kind = "null" THEN [v |-> Nil, err |-> ""]
    ELSE With(DataContainer_UnmarshalJSON(
                 IF IsNil(old) THEN ContainerZero ELSE old[1], m[1]),
              LAMBDA r : [v |-> Ptr(r.c), err |-> r.err])

\* the members that follow data, which a fatal error leaves undecoded
DecodeDocumentRest(old, w, l, d) ==
    With(IF d.err /= "" \/ IsNil(w.included)
         THEN [v |-> old.Included, err |-> "", fatal |-> FALSE]
         ELSE UnmarshalDataSlice(old.Included, w.included[1]),
         LAMBDA i :
    With(IF d.err /= "" \/ i.fatal THEN [v |-> old.Meta, err |-> ""]
         ELSE DecodeMeta(old.Meta, w.meta), LAMBDA m :
      [doc |-> [Links |-> l.v, Data |-> d.v, Included |-> i.v, Meta |-> m.v],
       err |-> IF d.err /= "" THEN d.err
               ELSE IF i.fatal THEN i.err
               ELSE FirstErr(<<l.err, i.err, m.err>>)]))

\* json.Unmarshal(bytes, &doc), the members in the order links, data,
\* included, meta; the error of UnmarshalJSON ends the decoding
DecodeDocument(old, w) ==
    DecodeDocumentRest(old, w, DecodeLinksPtr(old.Links, w.links),
                       DecodeDocumentData(old.Data, w.data))

----------------
(* Strings that the code takes apart (query keys, query values, struct     *)
(* tags) are sequences of atoms: a delimiter ("[", "]", ",") is an atom of *)
(* its own and every maximal run of other characters is one atom, so       *)
(* "fields[a]" is <<"fields", "[", "a", "]">> and "x,y" is <<"x", ",",     *)
(* "y">>.  A Go map[string]T whose keys are such strings is a set of       *)
(* <<key, value>> pairs with distinct keys.                                *)

MapKeys(m) == {e[1] : e \in m}
MapHas(m, k) == \E e \in m : e[1] = k
MapGet(m, k) == (CHOOSE e \in m : e[1] = k)[2]
MapPut(m, k, v) == {e \in m : e[1] /= k} \cup {<<k, v>>}

----------------------------------------------------------------------------
(* FilterFields.ParseQuery *)

\* the spellings that (?i)fields matches
FieldsSpellings == {"fields", "FIELDS", "Fields"}

\* rpm.FindStringSubmatch(k) for (?i)^fields\[([^\]]+)]$ : <<>> when k does
\* not match, <<capture>> when it does
FindFieldsSubmatch(k) ==
    IF /\ Len(k) >= 4
       /\ k[1] \in FieldsSpellings
       /\ k[2] = "["
       /\ k[Len(k)] = "]"
       /\ \A i \in 3..(Len(k) - 1) : k[i] /= "]"
    THEN Ptr(SubSeq(k, 3, Len(k) - 1))
    ELSE Nil

\* strings.Join(v, ",")
RECURSIVE Join(_)
Join(v) ==
    IF Len(v) = 0 THEN <<>>
    ELSE IF Len(v) = 1 THEN v[1]
    ELSE v[1] \o <<",">> \o Join(Tail(v))

\* strings.Split(s, ","): the pieces between the commas, one more than there
\* are commas; a piece is its atom, or "" when nothing stands between
RECURSIVE Split(_)
Split(s) ==
    IF Len(s) = 0 THEN <<"">>
    ELSE IF s[1] = "," THEN <<"">> \o Split(Tail(s))
    ELSE IF Len(s) = 1 THEN <<s[1]>>
    ELSE <<s[1]>> \o Split(SubSeq(s, 3, Len(s)))

\* strings.ToLower on the atoms the queries are made of
ToLower(a) ==
    CASE a = "Articles" -> "articles"
      [] a \in FieldsSpellings -> "fields"
      [] OTHER -> a

\* a variant that stores under strings.ToLower(matches[1])
ParseQueryBody_FoldCapture(f, k, v) ==
    LET matches == FindFieldsSubmatch(k)
    IN IF Len(matches) > 0
       THEN MapPut(f, [i \in 1..Len(matches[1]) |-> ToLower(matches[1][i])],
                   Split(Join(v)))
       ELSE f

\* a variant that splits the first value only
ParseQueryBody_NoJoin(f, k, v) ==
    LET matches == FindFieldsSubmatch(k)
    IN IF Len(matches) > 0
       THEN MapPut(f, matches[1], Split(IF Len(v) = 0 THEN <<>> ELSE v[1]))
       ELSE f

\* the body of the loop of ParseQuery for the key k with the values v
ParseQueryBody(f, k, v) ==
    LET matches == FindFieldsSubmatch(k)
    IN IF Len(matches) > 0
       THEN MapPut(f, matches[1], Split(Join(v)))
       ELSE f

----------------------------------------------------------------------------
(* CustomObject: Fields []string and Object, a struct given by its fields  *)
(* in declaration order, each [Name, tag, val]: the Go name, the value of  *)
(* the json key of the struct tag (<<>> when the tag has no json key) as a *)
(* sequence of atoms, and the field's value as an interface{} value.       *)

\* rpm.FindStringSubmatch(tag) for (?i)^([^,]+)(,|$)
FindTagSubmatch(tag) ==
    IF Len(tag) >= 1 /\ tag[1] /= "," THEN Ptr(tag[1]) ELSE Nil

RECURSIVE TagDict(_, _)
TagDict(fields, res) ==
    IF Len(fields) = 0 THEN res
    ELSE LET f == fields[1]
             matches == IF IsNil(f.tag) THEN Nil ELSE FindTagSubmatch(f.tag[1])
         IN TagDict(Tail(fields),
                    IF Len(matches) > 0 /\ matches[1] /= "-"
                    THEN MapPut(res, matches[1], f.Name)
                    ELSE res)

\* reflect.TypeOf and reflect.ValueOf of the struct held by co.Object: the
\* fields with their names and tags, and the fields with their values
getType(object) ==
    [i \in 1..Len(object) |-> [Name |-> object[i].Name, tag |-> object[i].tag]]
getValue(object) ==
    [i \in 1..Len(object) |-> [Name |-> object[i].Name, val |-> object[i].val]]

\* a variant without the test matches[1] != "-"
JSONToStruct_KeepDash(object) ==
    LET Rec[i \in 0..Len(object)] ==
          IF i = 0 THEN {}
          ELSE LET f == object[i]
                   matches == IF IsNil(f.tag) THEN Nil ELSE FindTagSubmatch(f.tag[1])
               IN IF Len(matches) > 0 THEN MapPut(Rec[i-1], matches[1], f.Name)
                  ELSE Rec[i-1]
    IN Rec[Len(object)]

\* func (co CustomObject) JSONToStruct() map[string]string
JSONToStruct(object) == TagDict(getType(object), {})

\* ref.FieldByName(name).Interface()
FieldByName(object, name) ==
    object[CHOOSE i \in 1..Len(object) : object[i].Name = name].val

RECURSIVE ProjectFields(_, _, _, _)
ProjectFields(object, dict, fields, obj) ==
    IF Len(fields) = 0 THEN obj
    ELSE LET f == fields[1]
             name == IF MapHas(dict, f) THEN MapGet(dict, f) ELSE ""
         IN ProjectFields(object, dict, Tail(fields),
                          IF name /= ""
                          THEN MapPut(obj, f, FieldByName(object, name))
                          ELSE obj)

\* func (co CustomObject) MarshalJSON() ([]byte, error): the JSON object, as
\* the set of its <<key, value>> members
CustomObject_MarshalJSON(cobj) ==
    LET obj == ProjectFields(getValue(cobj.Object), JSONToStruct(cobj.Object),
                             cobj.Fields, {})
    IN [out |-> {<<e[1], EncodeIface(e[2])>> : e \in obj}, err |-> ""]

----------------------------------------------------------------------------
(* The payloads handed to the containers *)

MaxCalls == 4    \* the number of decode calls made on one container

\* {"type":"p","id":"9"}, {"id":"8"} and {"type":5}
RelWireA == [type |-> Ptr(JStr("p")), id |-> Ptr(JStr("9"))]
RelWireB == [type |-> Nil, id |-> Ptr(JStr("8"))]
RelWireBad == [type |-> Ptr(JNum("5")), id |-> Nil]

RelPayload(ws, ok, kind, obj, arr) ==
    [ws |-> ws, ok |-> ok, kind |-> kind, obj |-> obj, arr |-> arr]

\* {"type":"a","id":"1","attributes":{}}
WireA == [type |-> Ptr(JStr("a")), id |-> Ptr(JStr("1")), attributes |-> Ptr("{}"),
          relationships |-> Nil, links |-> Nil]
\* {"id":"2","attributes":null,"links":{"self":"u"}}
WireB == [type |-> Nil, id |-> Ptr(JStr("2")), attributes |-> Ptr("null"),
          relationships |-> Nil,
          links |-> Ptr([kind |-> "object",
                         obj |-> EncodeLinks([LinksZero EXCEPT !.Self = "u"])])]
\* {"type":5}
WireBad == [DataObjFiller EXCEPT !.type = Ptr(JNum("5"))]

WireRelationships(relData) ==
    Ptr([kind |-> "object", keys |-> {"author"},
         at |-> [k \in RelNames |-> [links |-> Nil, data |-> Ptr(relData), meta |-> Nil]]])

\* {"type":"a","id":"3","relationships":{"author":{"data":[{"type":"p","id":"9"}]}}}
WireRel ==
    [type |-> Ptr(JStr("a")), id |-> Ptr(JStr("3")), attributes |-> Nil,
     relationships |->
        WireRelationships(RelPayload(FALSE, TRUE, "array", RelObjFiller,
                                     <<[kind |-> "object", obj |-> RelWireA]>>)),
     links |-> Nil]
\* {"type":"a","relationships":{"author":{"data":"x"}}}
WireRelBad ==
    [type |-> Ptr(JStr("a")), id |-> Nil, attributes |-> Nil,
     relationships |->
        WireRelationships(RelPayload(FALSE, TRUE, "string", RelObjFiller, <<>>)),
     links |-> Nil]

ObjWires == {WireA, WireB, WireBad, WireRel, WireRelBad}

ElemA == [kind |-> "object", obj |-> WireA]
ElemB == [kind |-> "object", obj |-> WireB]
ElemRelBad == [kind |-> "object", obj |-> WireRelBad]
ElemNull == [kind |-> "null", obj |-> DataObjFiller]
ElemNum == [kind |-> "number", obj |-> DataObjFiller]

\* [], [A], [A,B], [null,A], [5] and [B,RelBad,A]
ArrayWires ==
    {<<>>, <<ElemA>>, <<ElemA, ElemB>>, <<ElemNull, ElemA>>, <<ElemNum>>,
     <<ElemB, ElemRelBad, ElemA>>}

Payload(ws, ok, kind, obj, arr) ==
    [ws |-> ws, ok |-> ok, kind |-> kind, obj |-> obj, arr |-> arr]

\* the objects and arrays above; a string, a number, null and no byte at
\* all; an object and an array after a space; a text that starts as an
\* object, or as an array, and is not valid JSON
Payloads ==
    {Payload(FALSE, TRUE, "object", w, <<>>) : w \in ObjWires}
    \cup {Payload(FALSE, TRUE, "array", DataObjFiller, a) : a \in ArrayWires}
    \cup {Payload(FALSE, TRUE, k, DataObjFiller, <<>>) :
             k \in {"string", "number", "null", "empty"}}
    \cup {Payload(TRUE, TRUE, "object", WireA, <<>>),
          Payload(TRUE, TRUE, "array", DataObjFiller, <<ElemA>>)}
    \cup {Payload(FALSE, FALSE, "object", WireA, <<>>),
          Payload(FALSE, FALSE, "array", DataObjFiller, <<ElemA>>)}

\* whether a string member is absent, null or a JSON string
StringMemberOK(m) == IsNil(m) \/ m[1].kind \in {"string", "null"}

\* a payload for a reference container that every member of which has the
\* type its field asks for
RelObjWellFormed(w) == StringMemberOK(w.type) /\ StringMemberOK(w.id)

RelPayloadWellFormed(p) ==
    /\ p.ok
    /\ p.kind = "object" => RelObjWellFormed(p.obj)
    /\ p.kind = "array" =>
          \A i \in 1..Len(p.arr) :
             \/ p.arr[i].kind = "null"
             \/ p.arr[i].kind = "object" /\ RelObjWellFormed(p.arr[i].obj)

LinksMemberOK(m) ==
    IsNil(m) \/ m[1].kind = "null"
    \/ (m[1].kind = "object" /\ \A k \in DOMAIN m[1].obj : StringMemberOK(m[1].obj[k]))

RelationshipsMemberOK(m) ==
    IsNil(m) \/ m[1].kind = "null"
    \/ (m[1].kind = "object" /\
        \A k \in m[1].keys :
           /\ LinksMemberOK(m[1].at[k].links)
           /\ \/ IsNil(m[1].at[k].data)
              \/ m[1].at[k].data[1].kind = "null"
              \/ /\ m[1].at[k].data[1].kind \in {"object", "array"}
                 /\ RelPayloadWellFormed(m[1].at[k].data[1]))

DataObjWellFormed(w) ==
    /\ StringMemberOK(w.type)
    /\ StringMemberOK(w.id)
    /\ RelationshipsMemberOK(w.relationships)
    /\ LinksMemberOK(w.links)

PayloadWellFormed(p) ==
    /\ p.ok
    /\ p.kind = "object" => DataObjWellFormed(p.obj)
    /\ p.kind = "array" =>
          \A i \in 1..Len(p.arr) :
             \/ p.arr[i].kind = "null"
             \/ p.arr[i].kind = "object" /\ DataObjWellFormed(p.arr[i].obj)

\* the payload for a reference container that corresponds to p: the same
\* leading bytes, the same shape and length, an element that is accepted
\* where p's is and one that is rejected where p's is
RelObjOf(w) ==
    IF ~DataObjWellFormed(w) THEN RelWireBad
    ELSE IF IsNil(w.type) THEN RelWireB
    ELSE RelWireA

RelOf(p) ==
    RelPayload(p.ws, p.ok, p.kind,
               IF p.kind = "object" THEN RelObjOf(p.obj) ELSE RelObjFiller,
               [i \in 1..Len(p.arr) |->
                  [kind |-> p.arr[i].kind,
                   obj |-> IF p.arr[i].kind = "object" THEN RelObjOf(p.arr[i].obj)
                           ELSE RelObjFiller]])

----------------------------------------------------------------------------
(* The containers: the same calls on a DataContainer and on a              *)
(* RelationshipDataContainer, with corresponding payloads                  *)

NoOut == [kind |-> "none", obj |-> DataObjFiller, arr |-> <<>>]
RelNoOut == [kind |-> "none", obj |-> RelObjFiller, arr |-> <<>>]

IdleC ==
    /\ c = ContainerZero
    /\ rc = RelContainerZero
    /\ cres = [op |-> "new", err |-> "", out |-> NoOut, p |-> NullPayload,
               fresh |-> TRUE, calls |-> 0]
    /\ rcres = [op |-> "new", err |-> "", out |-> RelNoOut, p |-> RelPayloadFiller,
                fresh |-> TRUE]

UnmarshalJSON(p) ==
    /\ api = "container"
    /\ cres.calls < MaxCalls
    /\ With(DataContainer_UnmarshalJSON(c, p), LAMBDA r :
         /\ c' = r.c
         /\ cres' = [op |-> "unmarshal", err |-> r.err, out |-> NoOut, p |-> p,
                     fresh |-> (c = ContainerZero), calls |-> cres.calls + 1])
    /\ With(RelationshipDataContainer_UnmarshalJSON(rc, RelOf(p)), LAMBDA r :
         /\ rc' = r.c
         /\ rcres' = [op |-> "unmarshal", err |-> r.err, out |-> RelNoOut,
                      p |-> RelOf(p), fresh |-> (rc = RelContainerZero)])
    /\ UNCHANGED <<api, dvars, qvars, pvars>>

MarshalJSON ==
    /\ api = "container"
    /\ With(DataContainer_MarshalJSON(c), LAMBDA r :
         cres' = [op |-> "marshal", err |-> r.err, out |-> r.out, p |-> NullPayload,
                  fresh |-> FALSE, calls |-> cres.calls])
    /\ With(RelationshipDataContainer_MarshalJSON(rc), LAMBDA r :
         rcres' = [op |-> "marshal", err |-> r.err, out |-> r.out,
                   p |-> RelPayloadFiller, fresh |-> FALSE])
    /\ UNCHANGED <<api, c, rc, dvars, qvars, pvars>>

NextC == (\E p \in Payloads : UnmarshalJSON(p)) \/ MarshalJSON

----------------------------------------------------------------------------
(* Documents: the caller builds a Document, encodes it and decodes the     *)
(* bytes into a new Document; or decodes bytes it received into the         *)
(* Document it holds                                                       *)

MaxReceives == 1   \* the number of received texts decoded into one Document

Slice(elems) == Ptr([e |-> elems, spare |-> <<>>])

RelDataA == [Type |-> "p", ID |-> "9"]

DataA == [DataZero EXCEPT !.Type = "a", !.ID = "1", !.Attributes = Ptr("{}")]
DataB == [DataZero EXCEPT !.Type = "b", !.ID = "2", !.Attributes = Ptr("{\"k\":1}"),
                          !.Links = Ptr([LinksZero EXCEPT !.Self = "u"])]
DataNoAttributes == [DataZero EXCEPT !.Type = "a", !.ID = "1"]
DataSpaced == [DataA EXCEPT !.Attributes = Ptr("{ }")]
DataBadAttributes == [DataA EXCEPT !.Attributes = Ptr("{")]
DataRel(relContainer) ==
    [DataA EXCEPT !.Relationships =
        Ptr([keys |-> {"author"},
             at |-> [k \in RelNames |->
                       [Links |-> Nil, Data |-> relContainer, Meta |-> Nil]]])]
DataNoRels == [DataA EXCEPT !.Relationships = Ptr(RelMapEmpty)]

Resources ==
    {DataA, DataB, DataNoAttributes, DataSpaced, DataBadAttributes, DataNoRels,
     DataRel(Nil),
     DataRel(Ptr(RelContainerZero)),
     DataRel(Ptr([DataObject |-> Ptr(RelDataA), DataArray |-> Nil])),
     DataRel(Ptr([DataObject |-> Nil, DataArray |-> Slice(<<>>)])),
     DataRel(Ptr([DataObject |-> Nil, DataArray |-> Slice(<<RelDataA, RelDataA>>)]))}

Containers ==
    {ContainerZero}
    \cup {[DataObject |-> Ptr(d), DataArray |-> Nil] : d \in Resources}
    \cup {[DataObject |-> Nil, DataArray |-> Slice(a)] :
             a \in {<<>>, <<DataA>>, <<DataA, DataB>>, <<DataB, DataNoAttributes>>}}
    \cup {[DataObject |-> Ptr(DataA), DataArray |-> Slice(<<DataB>>)]}

Metas ==
    {Nil, Ptr(MetaEmpty)}
    \cup {Ptr([keys |-> {"n"}, at |-> [k \in MetaNames |-> x]]) :
            x \in {[t |-> "string", s |-> "v"], [t |-> "int", s |-> "1"],
                   [t |-> "float64", s |-> "1"]}}

Documents ==
    [Links : {Nil, Ptr([LinksZero EXCEPT !.Self = "u"])},
     Data : {Nil} \cup {Ptr(x) : x \in Containers},
     Included : {Nil, Slice(<<>>), Slice(<<DataB>>)},
     Meta : Metas]

WireDocument(links, data, meta) ==
    [links |-> links, data |-> data, included |-> Nil, meta |-> meta]

\* {"data":"x"}, {"data":1}, {"data":null}, {"data":{..}}, {"data":[..]},
\* {}, and {"links":{"self":"u"},"data":"x","meta":{"n":"v"}}
DataMembers ==
    {Ptr(Payload(FALSE, TRUE, k, DataObjFiller, <<>>)) : k \in {"string", "number", "null"}}
    \cup {Ptr(Payload(FALSE, TRUE, "object", w, <<>>)) : w \in {WireA, WireRelBad}}
    \cup {Ptr(Payload(FALSE, TRUE, "array", DataObjFiller, a)) :
             a \in {<<>>, <<ElemA, ElemB>>}}
    \cup {Nil}

WireDocuments ==
    {WireDocument(Nil, d, Nil) : d \in DataMembers}
    \cup {WireDocument(EncodeLinksPtr(Ptr([LinksZero EXCEPT !.Self = "u"])), d,
                       EncodeMeta(Ptr([keys |-> {"n"},
                                       at |-> [k \in MetaNames |->
                                                 [t |-> "string", s |-> "v"]]]))) :
            d \in DataMembers}

NoDocument == [op |-> "new", err |-> "", wire |-> EncodeDocument(DocumentZero).wire,
               out |-> DocumentZero, calls |-> 0]

IdleD == doc = DocumentZero /\ dres = NoDocument

InitD == api = "document" /\ doc \in Documents /\ dres = NoDocument

\* b, err := json.Marshal(doc)
MarshalDocument ==
    /\ api = "document"
    /\ With(EncodeDocument(doc), LAMBDA r :
         dres' = [op |-> "marshal", err |-> r.err, wire |-> r.wire,
                  out |-> DocumentZero, calls |-> dres.calls])
    /\ UNCHANGED <<api, doc, cvars, qvars, pvars>>

\* var out Document; err := json.Unmarshal(b, &out), b the bytes just encoded
UnmarshalDocument ==
    /\ api = "document"
    /\ dres.op = "marshal"
    /\ dres.err = ""
    /\ With(DecodeDocument(DocumentZero, dres.wire), LAMBDA r :
         dres' = [op |-> "roundtrip", err |-> r.err, wire |-> dres.wire,
                  out |-> r.doc, calls |-> dres.calls])
    /\ UNCHANGED <<api, doc, cvars, qvars, pvars>>

\* err := json.Unmarshal(w, &doc), w a text that was received
ReceiveDocument(w) ==
    /\ api = "document"
    /\ dres.calls < MaxReceives
    /\ With(DecodeDocument(doc, w), LAMBDA r :
         /\ doc' = r.doc
         /\ dres' = [op |-> "receive", err |-> r.err, wire |-> w,
                     out |-> doc, calls |-> dres.calls + 1])
    /\ UNCHANGED <<api, cvars, qvars, pvars>>

NextD == MarshalDocument \/ UnmarshalDocument \/ (\E w \in WireDocuments : ReceiveDocument(w))

----------------------------------------------------------------------------
(* ParseQuery: the loop ranges over the map q, in an order Go leaves       *)
(* unspecified; one step visits one key.  Two runs on the same q and the   *)
(* same prior FilterFields are kept side by side.                          *)

MaxKeys == 2     \* the number of keys of a query

KeyArticles == <<"fields", "[", "articles", "]">>
KeyArticlesCap == <<"fields", "[", "Articles", "]">>
KeyUpper == <<"FIELDS", "[", "articles", "]">>
KeyPeople == <<"Fields", "[", "people", "]">>
KeyNested == <<"fields", "[", "a", "[", "b", "]">>
KeyPage == <<"page">>
KeyEmpty == <<"fields", "[", "]">>
KeyTwice == <<"fields", "[", "a", "]", "]">>
KeyPrefixed == <<"xfields", "[", "a", "]">>

\* fields[articles]=title,body  fields[Articles]=author  FIELDS[articles]=id
\* Fields[people]=name&Fields[people]=age,email  fields[a[b]=x,  page=2
\* fields[]=author  fields[a]]=title  xfields[a]=title  and a key with no value
QueryEntries ==
    {<<KeyArticles, << <<"title", ",", "body">> >> >>,
     <<KeyArticlesCap, << <<"author">> >> >>,
     <<KeyUpper, << <<"id">> >> >>,
     <<KeyPeople, << <<"name">>, <<"age", ",", "email">> >> >>,
     <<KeyNested, << <<"x", ",">> >> >>,
     <<KeyPage, << <<"2">> >> >>,
     <<KeyEmpty, << <<"author">> >> >>,
     <<KeyTwice, << <<"title">> >> >>,
     <<KeyPrefixed, << <<"title">> >> >>,
     <<<<"fields", "[", "tags", "]">>, <<>> >>}

Queries == {qq \in SUBSET QueryEntries : Cardinality(qq) <= MaxKeys}

PriorFilters ==
    {{}, {<< <<"articles">>, <<"old">> >>, << <<"comments">>, <<"body">> >>}}

NewRun(keys, f) == [left |-> keys, f |-> f, last |-> Nil, prev |-> f]

IdleQ == q = {} /\ f0 = {} /\ run = [r \in 1..2 |-> NewRun({}, {})]

InitQ ==
    /\ api = "query"
    /\ q \in Queries
    /\ f0 \in PriorFilters
    /\ run = [r \in 1..2 |-> NewRun(MapKeys(q), f0)]

\* one iteration of  for k, v := range q  in run r
ParseQuery(r, k) ==
    /\ api = "query"
    /\ k \in run[r].left
    /\ run' = [run EXCEPT ![r] =
                 [left |-> run[r].left \ {k},
                  f |-> ParseQueryBody(run[r].f, k, MapGet(q, k)),
                  last |-> Ptr(k),
                  prev |-> run[r].f]]
    /\ UNCHANGED <<api, q, f0, cvars, dvars, pvars>>

NextQ == \E r \in 1..2 : \E k \in MapKeys(q) : ParseQuery(r, k)

----------------------------------------------------------------------------
(* Projection: the host objects are structs whose tagged fields are        *)
(* exported, as the reflection in MarshalJSON needs                        *)

MaxFields == 2   \* the number of names in CustomObject.Fields

StrVal(x) == [t |-> "string", s |-> x]
IntVal(x) == [t |-> "int", s |-> x]

StructField(name, tag, val) == [Name |-> name, tag |-> tag, val |-> val]

\* struct { Name string `json:"name"`; Secret string `json:"-"`;
\*          Age int `json:"age,omitempty"`; Plain string;
\*          Blank string `json:",omitempty"` }
HostPerson ==
    <<StructField("Name", Ptr(<<"name">>), StrVal("bob")),
      StructField("Secret", Ptr(<<"-">>), StrVal("s3")),
      StructField("Age", Ptr(<<"age", ",", "omitempty">>), IntVal("0")),
      StructField("Plain", Nil, StrVal("p")),
      StructField("Blank", Ptr(<<",", "omitempty">>), StrVal("b"))>>

\* struct { First string `json:"name"`; Dash string `json:"-,"`;
\*          Second string `json:"name"`; Empty string `json:""` }
HostTwice ==
    <<StructField("First", Ptr(<<"name">>), StrVal("one")),
      StructField("Dash", Ptr(<<"-", ",">>), StrVal("d")),
      StructField("Second", Ptr(<<"name">>), StrVal("two")),
      StructField("Empty", Ptr(<<>>), StrVal("e"))>>

Hosts == {HostPerson, HostTwice}

RequestNames == {"name", "secret", "missing", "age", "-", "", "Plain"}

RECURSIVE NameSeqs(_)
NameSeqs(n) ==
    IF n = 0 THEN {<<>>}
    ELSE LET shorter == NameSeqs(n - 1)
         IN shorter \cup {Append(t, x) : t \in {u \in shorter : Len(u) = n - 1},
                                         x \in RequestNames}

NoProjection == [op |-> "new", out |-> {}, err |-> "", stale |-> FALSE]

IdleP == co = [Fields |-> <<>>, Object |-> <<>>] /\ pres = NoProjection

InitP ==
    /\ api = "projection"
    /\ co \in [Fields : NameSeqs(MaxFields), Object : Hosts]
    /\ pres = NoProjection

\* b, err := json.Marshal(co)
Project ==
    /\ api = "projection"
    /\ With(CustomObject_MarshalJSON(co), LAMBDA r :
         pres' = [op |-> "marshal", out |-> r.out, err |-> r.err, stale |-> FALSE])
    /\ UNCHANGED <<api, co, cvars, dvars, qvars>>

\* the caller assigns to a field of the host object
SetField(i, x) ==
    /\ api = "projection"
    /\ i \in 1..Len(co.Object)
    /\ co.Object[i].val /= x
    /\ co' = [co EXCEPT !.Object[i].val = x]
    /\ pres' = [pres EXCEPT !.stale = TRUE]
    /\ UNCHANGED <<api, cvars, dvars, qvars>>

NextP == Project \/ (\E i \in 1..2 : \E x \in {StrVal("bob"), StrVal("amy")} : SetField(i, x))

----------------------------------------------------------------------------
(* Specifications *)

InitContainers == api = "container" /\ IdleC /\ IdleD /\ IdleQ /\ IdleP
InitDocuments == InitD /\ IdleC /\ IdleQ /\ IdleP
InitDecoders == InitContainers \/ InitDocuments
InitQueries == InitQ /\ IdleC /\ IdleD /\ IdleP
InitProjections == InitP /\ IdleC /\ IdleD /\ IdleQ

SpecC == InitContainers /\ [][NextC]_vars
SpecD == InitDocuments /\ [][NextD]_vars
SpecCD == InitDecoders /\ [][NextC \/ NextD]_vars
SpecQ == InitQueries /\ [][NextQ]_vars
SpecP == InitProjections /\ [][NextP]_vars

Init == InitContainers \/ InitDocuments \/ InitQueries \/ InitProjections

Next == NextC \/ NextD \/ NextQ \/ NextP

Spec == Init /\ [][Next]_vars

----------------------------------------------------------------------------
(* Properties *)

Range(sq) == {sq[i] : i \in 1..Len(sq)}

\* which slots of a container are populated
Slots(cn) == <<~IsNil(cn.DataObject), ~IsNil(cn.DataArray)>>

\* the shape of a Document's data
DataShape(d) ==
    IF IsNil(d.Data) THEN "unset"
    ELSE IF Slots(d.Data[1]) = <<TRUE, FALSE>> THEN "single"
    ELSE IF Slots(d.Data[1]) = <<FALSE, TRUE>> THEN "many"
    ELSE "other"

\* C1: a Document whose data is a single resource, a sequence of resources
\* or unset is encoded without error, and decoding the bytes into a new
\* Document gives a Document equal to it.
C1_RoundTrip ==
    (dres.op = "roundtrip" /\ DataShape(doc) \in {"single", "many", "unset"})
        => (dres.err = "" /\ dres.out = doc)

\* C2: MarshalJSON of either container returns the JSON array of DataArray
\* whenever DataArray is not nil (also when it is empty, also when DataObject
\* is set), the encoding of DataObject when DataArray is nil and DataObject
\* is not, and null when both are nil.
C2_EncodeTriState ==
    cres.op = "marshal" =>
       /\ cres.err = ""
       /\ ~IsNil(c.DataArray) =>
             /\ cres.out.kind = "array"
             /\ Len(cres.out.arr) = Len(c.DataArray[1].e)
             /\ \A i \in 1..Len(cres.out.arr) :
                   cres.out.arr[i] =
                      [kind |-> "object", obj |-> EncodeData(c.DataArray[1].e[i]).v]
       /\ (IsNil(c.DataArray) /\ ~IsNil(c.DataObject)) =>
             /\ cres.out.kind = "object"
             /\ cres.out.obj = EncodeData(c.DataObject[1]).v
       /\ (IsNil(c.DataArray) /\ IsNil(c.DataObject)) => cres.out.kind = "null"
       /\ rcres.err = ""
       /\ ~IsNil(rc.DataArray) =>
             /\ rcres.out.kind = "array"
             /\ Len(rcres.out.arr) = Len(rc.DataArray[1].e)
             /\ \A i \in 1..Len(rcres.out.arr) :
                   rcres.out.arr[i] =
                      [kind |-> "object",
                       obj |-> EncodeRelationshipData(rc.DataArray[1].e[i])]
       /\ (IsNil(rc.DataArray) /\ ~IsNil(rc.DataObject)) =>
             /\ rcres.out.kind = "object"
             /\ rcres.out.obj = EncodeRelationshipData(rc.DataObject[1])
       /\ (IsNil(rc.DataArray) /\ IsNil(rc.DataObject)) => rcres.out.kind = "null"

\* an empty, non-nil DataArray beside a DataObject that is set was encoded
\* (as the array [])
C2_Witness ==
    /\ cres.op = "marshal"
    /\ Slots(c) = <<TRUE, TRUE>>
    /\ Len(c.DataArray[1].e) = 0
    /\ cres.out.kind = "array"
    /\ Slots(rc) = <<TRUE, TRUE>>
    /\ Len(rc.DataArray[1].e) = 0

\* C3: whatever decode calls were made on a container that started with
\* both slots unset, DataObject and DataArray are never both populated.
C3_NeverBoth ==
    /\ Slots(c) /= <<TRUE, TRUE>>
    /\ Slots(rc) /= <<TRUE, TRUE>>

\* C4: a well-formed payload decoded into a container with both slots unset
\* goes by its leading byte: after "{" DataObject holds the object and
\* DataArray is nil; after "[" DataArray holds one element per element of the
\* array, in order, and DataObject is nil.
C4_LeadingByteDispatch ==
    /\ (cres.op = "unmarshal" /\ cres.fresh /\ PayloadWellFormed(cres.p)) =>
          /\ FirstByte(cres.p) = "{" =>
                /\ cres.err = ""
                /\ c.DataObject = Ptr(DecodeData(DataZero, cres.p.obj).v)
                /\ IsNil(c.DataArray)
          /\ FirstByte(cres.p) = "[" =>
                /\ cres.err = ""
                /\ IsNil(c.DataObject)
                /\ ~IsNil(c.DataArray)
                /\ Len(c.DataArray[1].e) = Len(cres.p.arr)
                /\ \A i \in 1..Len(cres.p.arr) :
                      c.DataArray[1].e[i] =
                         JsonDecodeStruct(DecodeData(DataZero, cres.p.arr[i].obj),
                                          DataZero, cres.p.arr[i]).v
    /\ (rcres.op = "unmarshal" /\ rcres.fresh /\ RelPayloadWellFormed(rcres.p)) =>
          /\ FirstByte(rcres.p) = "{" =>
                /\ rcres.err = ""
                /\ rc.DataObject =
                      Ptr(DecodeRelationshipData(RelationshipDataZero, rcres.p.obj).v)
                /\ IsNil(rc.DataArray)
          /\ FirstByte(rcres.p) = "[" =>
                /\ rcres.err = ""
                /\ IsNil(rc.DataObject)
                /\ ~IsNil(rc.DataArray)
                /\ Len(rc.DataArray[1].e) = Len(rcres.p.arr)
                /\ \A i \in 1..Len(rcres.p.arr) :
                      rc.DataArray[1].e[i] =
                         JsonDecodeStruct(
                             DecodeRelationshipData(RelationshipDataZero,
                                                    rcres.p.arr[i].obj),
                             RelationshipDataZero, rcres.p.arr[i]).v

\* an array of two different resources was decoded into an unset container
C4_Witness ==
    /\ cres.op = "unmarshal"
    /\ cres.fresh
    /\ PayloadWellFormed(cres.p)
    /\ FirstByte(cres.p) = "["
    /\ Len(cres.p.arr) = 2
    /\ cres.p.arr[1] /= cres.p.arr[2]
    /\ Slots(c) = <<FALSE, TRUE>>
    /\ rcres.fresh
    /\ Slots(rc) = <<FALSE, TRUE>>

\* the first byte of the payload that is not whitespace
FirstNonSpace(p) == FirstByte([p EXCEPT !.ws = FALSE])

\* C5, as stated: a payload whose first non-whitespace byte is neither "{"
\* nor "[" makes UnmarshalJSON of either container return an error, and a
\* Document whose data member is such a value fails to decode.
C5_RejectsOtherValues ==
    /\ (cres.op = "unmarshal" /\ FirstNonSpace(cres.p) \notin {"{", "["}) =>
          (cres.err /= "" /\ rcres.err /= "")
    /\ (dres.op = "receive" /\ ~IsNil(dres.wire.data)
          /\ FirstNonSpace(dres.wire.data[1]) \notin {"{", "["}) =>
          dres.err /= ""

\* C5, amended: as C5, but for a Document whose data member is the literal
\* null: that Document decodes without an error and with Data unset, and any
\* other data member that starts with neither "{" nor "[" makes the whole
\* decode fail.
C5_RejectsOtherValuesButNull ==
    /\ (cres.op = "unmarshal" /\ FirstNonSpace(cres.p) \notin {"{", "["}) =>
          (cres.err /= "" /\ rcres.err /= "")
    /\ (dres.op = "receive" /\ ~IsNil(dres.wire.data)
          /\ FirstNonSpace(dres.wire.data[1]) \notin {"{", "[", "n"}) =>
          dres.err /= ""
    /\ (dres.op = "receive" /\ ~IsNil(dres.wire.data)
          /\ dres.wire.data[1].kind = "null") =>
          (dres.err = "" /\ IsNil(doc.Data))

\* a Document whose data is a JSON string was received, other members with it
C5_Witness ==
    /\ dres.op = "receive"
    /\ ~IsNil(dres.wire.data)
    /\ dres.wire.data[1].kind = "string"
    /\ ~IsNil(dres.wire.meta)
    /\ dres.err /= ""

----------------------------------------------------------------------------

\* the name a json tag gives a field: the atom before the first comma
HasTagName(fld) == ~IsNil(fld.tag) /\ Len(fld.tag[1]) >= 1 /\ fld.tag[1][1] /= ","
TagNameOf(fld) == fld.tag[1][1]

\* the fields of the host that the requested name n resolves to
ResolvedBy(object, n) ==
    {i \in 1..Len(object) : HasTagName(object[i]) /\ TagNameOf(object[i]) = n /\ n /= "-"}

RECURSIVE Flatten(_)
Flatten(v) == IF Len(v) = 0 THEN <<>> ELSE Split(v[1]) \o Flatten(Tail(v))

QueryArticles ==
    {<<KeyArticles, << <<"title", ",", "body">> >> >>,
     <<KeyArticlesCap, << <<"author">> >> >>}

\* C8, as stated: that query parsed into an empty FilterFields leaves
\* exactly one entry.
C8_OneEntry ==
    \A r \in 1..2 :
       (q = QueryArticles /\ f0 = {} /\ run[r].left = {}) =>
          Cardinality(run[r].f) = 1

\* C8, amended: both keys match, the captures articles and Articles differ,
\* and that query parsed into an empty FilterFields leaves exactly two
\* entries, one under each capture, in whatever order the keys are visited.
C8_TwoEntries ==
    \A r \in 1..2 :
       (q = QueryArticles /\ f0 = {} /\ run[r].left = {}) =>
          /\ \A e \in q : ~IsNil(FindFieldsSubmatch(e[1]))
          /\ run[r].f = {<< <<"articles">>, <<"title", "body">> >>,
                         << <<"Articles">>, <<"author">> >>}

\* both runs have parsed that query, in different orders
C8_Witness ==
    /\ q = QueryArticles
    /\ f0 = {}
    /\ run[1].left = {}
    /\ run[2].left = {}
    /\ run[1].last /= run[2].last

\* C10: two runs of ParseQuery on the same query and the same prior
\* FilterFields end with the same FilterFields.
C10_Deterministic ==
    (run[1].left = {} /\ run[2].left = {}) => run[1].f = run[2].f

----------------------------------------------------------------------------

\* C9: the same calls, with corresponding payloads, give on a
\* RelationshipDataContainer what they give on a DataContainer: an error or
\* none at each call, the same slots populated after it, and an output of
\* the same shape at each encode.
C9_SameBehaviour ==
    /\ cres.op = rcres.op
    /\ (cres.err = "") <=> (rcres.err = "")
    /\ Slots(c) = Slots(rc)
    /\ cres.op = "marshal" => cres.out.kind = rcres.out.kind

\* both containers were encoded as an array after several decode calls, one
\* of them rejected
C9_Witness ==
    /\ cres.op = "marshal"
    /\ cres.calls >= 3
    /\ rcres.out.kind = "array"
    /\ cres.out.kind = "array"
    /\ Slots(rc) = <<TRUE, TRUE>>

====
